---- MODULE Spec2Model ----
(***************************************************************************)
(* Treemap Visualizer (src/treemap_viewer.py): the cancellable directory   *)
(* scan (scan_directory), the scan worker thread (_scan_worker), the UI    *)
(* handlers that start and stop scans, and the Tk "after" queue through    *)
(* which a worker hands its results to the UI thread.                      *)
(*                                                                         *)
(* A filesystem entry is addressed by its path, a sequence of child        *)
(* positions below Volume.  A Node's display name "name [tag]" is kept as  *)
(* the two fields name and tag.  Threads interleave between the steps      *)
(* named by pc (workers) and uiPc (the UI thread).  Spec runs up to        *)
(* MaxScans scans of small roots that supersede one another; OneScan runs  *)
(* one scan of any root, among them a directory wide enough for progress   *)
(* updates.  The variables log, asked, midwalk and seen record history.    *)
(***************************************************************************)
EXTENDS Integers, Sequences, FiniteSets, TLC

VARIABLES
    scan_id,          \* self.scan_id
    stop_scan,        \* self.stop_scan: the session whose Event it refers to
    scan_thread,      \* self.scan_thread: the session whose Thread it is, 0 = None
    scan_count,       \* self.scan_count (shared by all workers)
    exclude_patterns, \* self.exclude_patterns
    excl_list,        \* the rules shown in the self.excl_list Listbox
    status,           \* self.status label: [text, n]
    stop_btn,         \* state of the "Stop Scan" button
    current_tree,     \* self.current_tree
    zoom_stack,       \* self.zoom_stack
    flag,             \* flag[s]: is the threading.Event created for session s set
    pc,               \* pc[s]: where the worker thread of session s is
    root_path,        \* root_path[s]: the path argument of worker s
    stack,            \* stack[s]: the active _scan frames of worker s, innermost last
    pend,             \* pend[s]: the path _scan is about to be entered with
    after,            \* callbacks queued by root.after(0, ...), oldest first
    uiPc,             \* "idle", or "starting" inside start_scanning after line 461
    uiArg,            \* the path argument of the start_scanning call in progress
    log,              \* history: every result applied to the UI, in order
    asked,            \* history: sessions for which stop_scanning ran while current and unapplied
    midwalk,          \* history: sessions whose flag stop_scanning set during the walk
    seen,             \* history: sessions whose walk observed the flag set at a check
    result,           \* result[s]: what scan_directory gave worker s
    captured,         \* history: the rule list captured when scan s was started, while worker s runs
    canvas,           \* <<self.canvas.winfo_width(), self.canvas.winfo_height()>>
    rect_items,       \* self.rect_items: [child, rect] for each rectangle drawn
    weights,          \* the values of a call squarify(values, rect)
    placed,           \* what that call laid out: [rows, out, called]
    run,              \* the locals of a call of squarify that is stepped through its loop
    typed,            \* an exclusion rule as it stands in the Listbox
    cand,             \* a path _should_exclude is asked about
    verdict           \* what _should_exclude answered: "yes", "no", "" before the call

vars == <<scan_id, stop_scan, scan_thread, scan_count, exclude_patterns, excl_list,
          status, stop_btn, current_tree, zoom_stack, flag, pc, root_path, stack, pend,
          after, uiPc, uiArg, log, asked, midwalk, seen, result, captured,
          canvas, rect_items, weights, placed, run, typed, cand, verdict>>

\* the canvas size, and the arguments and results of the calls of squarify and
\* of _should_exclude that are examined on their own
layoutVars == <<canvas, weights, placed, run>>
matcherVars == <<typed, cand, verdict>>

(***************************************************************************)
(* Bounds and program constants                                            *)
(***************************************************************************)
\* how many times start_scanning may be called
MaxScans == 2

\* number of files in the wide directory
Wide == 200

\* progress is reported every 200th counted entry (line 505)
ProgressEvery == 200

\* a layout has up to MaxItems values, each in 0..MaxWeight
MaxItems == 3
MaxWeight == 2

\* the canvas is up to MaxCanvas wide and high
MaxCanvas == 16

\* an exclusion rule has up to MaxRule characters and a candidate path up to
\* MaxPath characters after its leading slash
MaxRule == 3
MaxPath == 3

Sessions == 1..MaxScans

(***************************************************************************)
(* The filesystem                                                          *)
(***************************************************************************)
FileE(name, size) ==
    [kind |-> "file", name |-> name, size |-> size, kids |-> <<>>, target |-> <<>>]
DirE(name, kids) ==
    [kind |-> "dir", name |-> name, size |-> 0, kids |-> kids, target |-> <<>>]
\* a symbolic link to the entry at the path target
LinkE(name, target) ==
    [kind |-> "link", name |-> name, size |-> 0, kids |-> <<>>, target |-> target]
\* an entry whose lstat fails (it does not exist)
GoneE(name) ==
    [kind |-> "gone", name |-> name, size |-> 0, kids |-> <<>>, target |-> <<>>]
\* a directory whose scandir raises PermissionError
DeniedE(name) ==
    [kind |-> "denied", name |-> name, size |-> 0, kids |-> <<>>, target |-> <<>>]
\* a directory whose scandir raises another OSError
BrokenE(name) ==
    [kind |-> "broken", name |-> name, size |-> 0, kids |-> <<>>, target |-> <<>>]

\* d/ln links back to d: the links form a cycle
Volume ==
    << DirE("d", << FileE("a", 2),
                    DirE("sub", << FileE("b", 1) >>),
                    LinkE("ln", <<1>>),
                    GoneE("gone"),
                    DeniedE("priv"),
                    BrokenE("bad") >>),
       GoneE("missing"),
       DirE("w", [i \in 1..Wide |-> FileE("f", 1)]) >>

RECURSIVE EntryAt(_, _), Deref(_)
\* the entry a link leads to (the link itself when it dangles), any other
\* entry itself
Deref(e) == IF e.kind = "link" /\ e.target # <<>> THEN EntryAt(Volume, e.target) ELSE e

\* the entry the path p names below list; a link on the way is followed
EntryAt(list, p) ==
    IF Len(p) = 1 THEN list[p[1]] ELSE EntryAt(Deref(list[p[1]]).kids, Tail(p))

Entry(p) == EntryAt(Volume, p)

\* what the path leads to once a final link is followed
Resolved(p) == Deref(Entry(p))

\* the entries os.scandir(p) yields
Listing(p) == Resolved(p).kids

\* paths the user may pick as the root of a scan
ProjectRoot == <<1>>
SubRoot == <<1, 2>>
FileRoot == <<1, 1>>
LinkRoot == <<1, 3>>
MissingRoot == <<2>>
WideRoot == <<3>>

\* os.path.basename(path) or path
NameOf(p) == Entry(p).name

\* os.path.isdir(path): follows links
IsDir(p) == Resolved(p).kind \in {"dir", "denied", "broken"}

\* os.lstat(path) raises
LstatFails(p) == Entry(p).kind = "gone"

\* os.path.islink(path)
IsLink(p) == Entry(p).kind = "link"

(***************************************************************************)
(* Nodes                                                                   *)
(***************************************************************************)
\* Node(path, name + " [tag]", size, is_dir, children)
Node(path, name, tag, size, is_dir, children) ==
    [path |-> path, name |-> name, tag |-> tag, size |-> size,
     is_dir |-> is_dir, children |-> children]

\* Python's None, where a Node is expected
NoNode == Node(<<>>, "", "none", 0, FALSE, <<>>)

\* scan_directory raised RuntimeError("Scan stopped") instead of returning
Stopped == Node(<<>>, "", "stopped", 0, FALSE, <<>>)

RECURSIVE SumSizes(_, _, _)
\* the sum of the sizes of the nodes lo..hi of kids
SumSizes(kids, lo, hi) ==
    IF lo > hi THEN 0
    ELSE IF lo = hi THEN kids[lo].size
    ELSE LET mid == (lo + hi) \div 2
         IN  SumSizes(kids, lo, mid) + SumSizes(kids, mid + 1, hi)

\* max(child.size, 0)
Max0(n) == IF n > 0 THEN n ELSE 0

(***************************************************************************)
(* Exclusion rules                                                         *)
(***************************************************************************)
\* a plain token, matched against the basename
Token(text) == [abs |-> FALSE, text |-> text, path |-> <<>>]
\* an absolute path, matched against the path and its descendants
AbsRule(path) == [abs |-> TRUE, text |-> "", path |-> path]

\* the rules the user may enter; a rule list is kept as the set of its rules,
\* since _should_exclude is true as soon as one rule matches
Rules == {Token("sub")}

IsPrefix(a, b) == Len(a) <= Len(b) /\ SubSeq(b, 1, Len(a)) = a

\* one iteration of the loop of _should_exclude
RuleMatches(pat, p, name) ==
    IF pat.abs THEN IsPrefix(pat.path, p) ELSE name = pat.text

\* self._should_exclude(path, is_dir, name), reading self.exclude_patterns
should_exclude(p, name) == \E pat \in exclude_patterns : RuleMatches(pat, p, name)

(***************************************************************************)
(* The Tk event queue                                                      *)
(***************************************************************************)
\* Post with a fault: the newest callback runs first (C6 depends on the order)
PostFirst(q, cb) == <<cb>> \o q

\* self.root.after(0, cb): timers of equal delay fire in the order they were set
Post(q, cb) == Append(q, cb)

ProgressCb(s, n) == [kind |-> "progress", sid |-> s, n |-> n, tree |-> NoNode]
StoppedCb(s) == [kind |-> "stopped", sid |-> s, n |-> 0, tree |-> NoNode]
FailedCb(s) == [kind |-> "failed", sid |-> s, n |-> 0, tree |-> NoNode]
ApplyCb(s, t) == [kind |-> "apply", sid |-> s, n |-> 0, tree |-> t]

Label(text, n) == [text |-> text, n |-> n]

Applied(s, kind) == [sid |-> s, kind |-> kind, cur |-> scan_id]

(***************************************************************************)
(* Initial state: TreemapApp.__init__                                      *)
(***************************************************************************)
\* no scan was started yet
Quiet ==
    /\ scan_id = 0
    /\ stop_scan = 0
    /\ scan_thread = 0
    /\ scan_count = 0
    /\ exclude_patterns = {}
    /\ excl_list = {}
    /\ status = Label("Ready", 0)
    /\ stop_btn = "disabled"
    /\ flag = [s \in 0..MaxScans |-> FALSE]
    /\ pc = [s \in Sessions |-> "none"]
    /\ root_path = [s \in Sessions |-> <<>>]
    /\ stack = [s \in Sessions |-> <<>>]
    /\ pend = [s \in Sessions |-> <<>>]
    /\ after = <<>>
    /\ uiPc = "idle"
    /\ uiArg = <<>>
    /\ log = <<>>
    /\ asked = {}
    /\ midwalk = {}
    /\ seen = {}
    /\ result = [s \in Sessions |-> NoNode]
    /\ captured = [s \in Sessions |-> {}]

\* squarify was not called
NoLayout == [rows |-> <<>>, out |-> <<>>, called |-> FALSE]

\* squarify was not entered: no values, no row, no rows laid out, no iteration
NoRun == [at |-> "idle", vals |-> <<>>, r |-> <<>>, row |-> <<>>, rows |-> <<>>, all |-> <<>>,
          iterations |-> 0]

\* no call of squarify or of _should_exclude is examined
NoCalls ==
    /\ weights = <<>>
    /\ placed = NoLayout
    /\ run = NoRun
    /\ typed = <<>>
    /\ cand = <<>>
    /\ verdict = ""

\* the window is built; until it is mapped its canvas measures 1 by 1
Init ==
    /\ Quiet
    /\ current_tree = NoNode
    /\ zoom_stack = <<>>
    /\ canvas = <<1, 1>>
    /\ rect_items = <<>>
    /\ NoCalls

(***************************************************************************)
(* UI thread: stop_scanning and start_scanning                             *)
(***************************************************************************)
\* self.scan_thread and self.scan_thread.is_alive()
IsAlive == scan_thread # 0 /\ pc[scan_thread] # "dead"

\* the worker is past the entry check of the root and has not left the walk
InWalk(s) == pc[s] \in {"loop", "body"} \/ (pc[s] = "enter" /\ stack[s] # <<>>)

\* FlagsAfterStop with a fault: the previous worker is not told to stop (C10
\* depends on lines 489-491)
FlagsUntouched == flag

\* the Events after lines 489-491 of stop_scanning
FlagsAfterStop == IF IsAlive THEN [flag EXCEPT ![stop_scan] = TRUE] ELSE flag

\* stop_scanning (lines 488-496); join(timeout=0.05) returns whether or not
\* the worker has finished, so nothing here waits for the worker
StopBody ==
    /\ flag' = FlagsAfterStop
    /\ stop_btn' = "disabled"
    /\ asked' = IF scan_id > 0 /\ \A i \in 1..Len(log) :
                      ~(log[i].sid = scan_id /\ log[i].kind = "Completed")
                 THEN asked \cup {scan_id} ELSE asked
    /\ midwalk' = IF IsAlive /\ ~flag[stop_scan] /\ InWalk(scan_thread)
                   THEN midwalk \cup {scan_thread} ELSE midwalk

\* the "Stop Scan" button: command=self.stop_scanning
stop_scanning ==
    /\ uiPc = "idle"
    /\ stop_btn = "normal"
    /\ StopBody
    /\ UNCHANGED <<scan_id, stop_scan, scan_thread, scan_count, exclude_patterns,
                   excl_list, status, current_tree, zoom_stack, pc, root_path, stack,
                   pend, after, uiPc, uiArg, log, seen, result, captured>>
    /\ UNCHANGED <<rect_items, layoutVars, matcherVars>>

\* start_scanning(path), line 461: cancel the previous scan
start_scanning(path) ==
    /\ uiPc = "idle"
    /\ scan_id < MaxScans
    /\ StopBody
    /\ uiPc' = "starting"
    /\ uiArg' = path
    /\ UNCHANGED <<scan_id, stop_scan, scan_thread, scan_count, exclude_patterns,
                   excl_list, status, current_tree, zoom_stack, pc, root_path, stack,
                   pend, after, log, seen, result, captured>>
    /\ UNCHANGED <<rect_items, layoutVars, matcherVars>>

\* NextId with a fault: the id is not advanced (C21 depends on line 466)
SameId == scan_id

\* self.scan_id += 1, line 466
NextId == scan_id + 1

\* start_scanning, lines 464-486: new Event, new id, rules captured, UI reset,
\* worker thread started
start_launch ==
    /\ uiPc = "starting"
    /\ stop_scan' = NextId
    /\ scan_id' = NextId
    /\ exclude_patterns' = excl_list
    /\ captured' = [captured EXCEPT ![NextId] = excl_list]
    /\ stop_btn' = "normal"
    /\ status' = Label("Scanning", 0)
    /\ zoom_stack' = <<>>
    /\ rect_items' = <<>>
    /\ scan_thread' = NextId
    /\ pc' = [pc EXCEPT ![NextId] = "begin"]
    /\ root_path' = [root_path EXCEPT ![NextId] = uiArg]
    /\ uiPc' = "idle"
    /\ uiArg' = <<>>
    /\ UNCHANGED <<scan_count, excl_list, current_tree, flag, stack, pend, after,
                   log, asked, midwalk, seen, result>>
    /\ UNCHANGED <<layoutVars, matcherVars>>

\* on_add_pattern: a rule not yet listed is added to the Listbox
on_add_pattern(r) ==
    /\ uiPc = "idle"
    /\ excl_list' = excl_list \cup {r}
    /\ UNCHANGED <<scan_id, stop_scan, scan_thread, scan_count, exclude_patterns,
                   status, stop_btn, current_tree, zoom_stack, flag, pc, root_path,
                   stack, pend, after, uiPc, uiArg, log, asked, midwalk, seen, result,
                   captured>>
    /\ UNCHANGED <<rect_items, layoutVars, matcherVars>>

\* on_clear_excluded
on_clear_excluded ==
    /\ uiPc = "idle"
    /\ excl_list' = {}
    /\ UNCHANGED <<scan_id, stop_scan, scan_thread, scan_count, exclude_patterns,
                   status, stop_btn, current_tree, zoom_stack, flag, pc, root_path,
                   stack, pend, after, uiPc, uiArg, log, asked, midwalk, seen, result,
                   captured>>
    /\ UNCHANGED <<rect_items, layoutVars, matcherVars>>

(***************************************************************************)
(* Worker thread: _scan_worker and scan_directory                          *)
(***************************************************************************)
Frame(path) == [path |-> path, idx |-> 0, total |-> 0, kids |-> <<>>]

\* Absorb with a fault: the size of a subdirectory is not added to its parent
\* (C8 depends on line 129)
AbsorbFilesOnly(f, child) ==
    IF child = NoNode
    THEN [f EXCEPT !.idx = f.idx + 1]
    ELSE [f EXCEPT !.idx = f.idx + 1,
                   !.kids = Append(f.kids, child),
                   !.total = IF child.is_dir THEN f.total ELSE f.total + Max0(child.size)]

\* Absorb with a fault: a child that failed takes the entries collected before
\* it down with it (C18 depends on the handlers of lines 108-111 and 138-141)
AbsorbFailureWipes(f, child) ==
    IF child = NoNode
    THEN [f EXCEPT !.idx = f.idx + 1]
    ELSE IF child.tag \in {"stat error", "denied", "error"}
    THEN [f EXCEPT !.idx = f.idx + 1, !.kids = <<child>>, !.total = 0]
    ELSE [f EXCEPT !.idx = f.idx + 1,
                   !.kids = Append(f.kids, child),
                   !.total = f.total + Max0(child.size)]

\* lines 127-129: the child is kept unless it is None, and its size is added
Absorb(f, child) ==
    IF child = NoNode
    THEN [f EXCEPT !.idx = f.idx + 1]
    ELSE [f EXCEPT !.idx = f.idx + 1,
                   !.kids = Append(f.kids, child),
                   !.total = f.total + Max0(child.size)]

\* lines 139 and 141: what a directory's _scan returns when scandir, or anything
\* raised while its entries are processed, fails
DeniedDir(p) == Node(p, NameOf(p), "denied", 0, TRUE, <<>>)
ErrorDir(p) == Node(p, NameOf(p), "error", 0, TRUE, <<>>)

\* line 142
DirNode(f) == Node(f.path, NameOf(f.path), "", f.total, TRUE, f.kids)

\* lines 101-117, 138-141 and 143-149 for an entry whose entries are not
\* enumerated: the value _scan returns (NoNode for None)
Leaf(p, is_root) ==
    IF ~is_root /\ should_exclude(p, NameOf(p)) THEN NoNode
    ELSE IF LstatFails(p) THEN Node(p, NameOf(p), "stat error", 0, FALSE, <<>>)
    ELSE IF IsLink(p) THEN Node(p, NameOf(p), "symlink", 0, FALSE, <<>>)
    ELSE IF IsDir(p) /\ Resolved(p).kind = "denied" THEN DeniedDir(p)
    ELSE IF IsDir(p) THEN ErrorDir(p)
    ELSE Node(p, NameOf(p), "", Entry(p).size, FALSE, <<>>)

\* Enumerates with a fault: a link to a directory is walked like a directory
\* (C19 depends on lines 113-115)
EnumeratesLinks(p, is_root) ==
    /\ is_root \/ ~should_exclude(p, NameOf(p))
    /\ ~LstatFails(p) /\ IsDir(p)
    /\ Resolved(p).kind = "dir"

\* Enumerates with a fault: an excluded directory is walked all the same (C9
\* depends on lines 105-106)
EnumeratesExcluded(p, is_root) ==
    ~LstatFails(p) /\ ~IsLink(p) /\ IsDir(p) /\ Resolved(p).kind = "dir"

\* does _scan(p) reach the loop over the directory's entries (line 122): the
\* entry is not excluded, lstat succeeds, it is no link, it is a directory and
\* os.scandir opens it
Enumerates(p, is_root) ==
    /\ is_root \/ ~should_exclude(p, NameOf(p))
    /\ ~LstatFails(p) /\ ~IsLink(p) /\ IsDir(p)
    /\ Resolved(p).kind = "dir"

\* progress() of worker s, lines 501-508: is the entry counted
Counts(s) == ~flag[s] /\ s = scan_id

\* the queue after progress() of worker s
AfterProgress(s) ==
    IF Counts(s) /\ (scan_count + 1) % ProgressEvery = 0
    THEN Post(after, ProgressCb(s, scan_count + 1))
    ELSE after

\* the handler of RuntimeError in _scan_worker, lines 512-515.  The handler of
\* any other exception (516-521) would queue FailedCb, but nothing else leaves
\* scan_directory: lstat, scandir and each child's _scan are wrapped in
\* try/except (108-111, 120-141).
AfterStopped(s) == IF s = scan_id THEN Post(after, StoppedCb(s)) ELSE after

\* _scan returns val to its caller; stk are the frames below the returning call.
\* With a caller frame: lines 127-129 and progress() (136-137).  Without:
\* scan_directory returns val and _scan_worker queues apply_tree (523-533).
Return(s, val, stk) ==
    IF stk = <<>>
    THEN /\ result' = [result EXCEPT ![s] = val]
         /\ after' = Post(after, ApplyCb(s, val))
         /\ pc' = [pc EXCEPT ![s] = "exiting"]
         /\ stack' = [stack EXCEPT ![s] = <<>>]
         /\ UNCHANGED scan_count
    ELSE /\ stack' = [stack EXCEPT ![s] =
                         Append(SubSeq(stk, 1, Len(stk) - 1), Absorb(stk[Len(stk)], val))]
         /\ scan_count' = IF Counts(s) THEN scan_count + 1 ELSE scan_count
         /\ after' = AfterProgress(s)
         /\ pc' = [pc EXCEPT ![s] = "loop"]
         /\ UNCHANGED result

\* RuntimeError("Scan stopped") is raised where stk are the active frames.
\* With no frame it leaves scan_directory (line 151) and _scan_worker handles it
\* (512-515).  Inside a directory's loop it is re-raised by line 133 or raised by
\* line 124, and then caught by "except Exception" of that directory (140-141),
\* whose _scan returns the "[error]" node to its own caller.
Raise(s, stk) ==
    IF stk = <<>>
    THEN /\ result' = [result EXCEPT ![s] = Stopped]
         /\ after' = AfterStopped(s)
         /\ pc' = [pc EXCEPT ![s] = "exiting"]
         /\ UNCHANGED <<stack, scan_count>>
    ELSE Return(s, ErrorDir(stk[Len(stk)].path), SubSeq(stk, 1, Len(stk) - 1))

\* line 499
worker_begin(s) ==
    /\ pc[s] = "begin"
    /\ scan_count' = 0
    /\ pend' = [pend EXCEPT ![s] = root_path[s]]
    /\ pc' = [pc EXCEPT ![s] = "enter"]
    /\ UNCHANGED <<scan_id, stop_scan, scan_thread, exclude_patterns, excl_list,
                   status, stop_btn, current_tree, zoom_stack, flag, root_path, stack,
                   after, uiPc, uiArg, log, asked, midwalk, seen, result, captured>>
    /\ UNCHANGED <<rect_items, layoutVars, matcherVars>>

\* _scan(pend[s]) is called: the check of lines 98-99
scan_enter(s) ==
    /\ pc[s] = "enter"
    /\ IF flag[s]
       THEN /\ seen' = seen \cup {s}
            /\ Raise(s, stack[s])
            /\ pend' = [pend EXCEPT ![s] = <<>>]
       ELSE /\ pc' = [pc EXCEPT ![s] = "body"]
            /\ UNCHANGED <<seen, stack, scan_count, after, result, pend>>
    /\ UNCHANGED <<scan_id, stop_scan, scan_thread, exclude_patterns, excl_list,
                   status, stop_btn, current_tree, zoom_stack, flag, root_path,
                   uiPc, uiArg, log, asked, midwalk, captured>>
    /\ UNCHANGED <<rect_items, layoutVars, matcherVars>>

\* the rest of the call _scan(pend[s]), lines 101-121 and 143-149.  Line 105
\* calls self._should_exclude for every entry but the root, and line 378 reads
\* self.exclude_patterns as it is at that moment.
scan_body(s) ==
    /\ pc[s] = "body"
    /\ LET p == pend[s]
           is_root == stack[s] = <<>>
       IN  IF Enumerates(p, is_root)
           THEN /\ stack' = [stack EXCEPT ![s] = Append(stack[s], Frame(p))]
                /\ pc' = [pc EXCEPT ![s] = "loop"]
                /\ UNCHANGED <<scan_count, after, result>>
           ELSE Return(s, Leaf(p, is_root), stack[s])
    /\ pend' = [pend EXCEPT ![s] = <<>>]
    /\ UNCHANGED <<scan_id, stop_scan, scan_thread, exclude_patterns, excl_list,
                   status, stop_btn, current_tree, zoom_stack, flag, root_path,
                   uiPc, uiArg, log, asked, midwalk, seen, captured>>
    /\ UNCHANGED <<rect_items, layoutVars, matcherVars>>

\* the top of the loop over a directory's entries, lines 122-124, and the end
\* of the loop, line 142
scan_loop(s) ==
    /\ pc[s] = "loop"
    /\ LET stk == stack[s]
           f == stk[Len(stk)]
           below == SubSeq(stk, 1, Len(stk) - 1)
       IN  IF f.idx = Len(Listing(f.path))
           THEN /\ Return(s, DirNode(f), below)
                /\ UNCHANGED <<pend, seen>>
           ELSE IF flag[s]
           THEN /\ seen' = seen \cup {s}
                /\ Raise(s, stk)
                /\ UNCHANGED pend
           ELSE /\ pend' = [pend EXCEPT ![s] = Append(f.path, f.idx + 1)]
                /\ pc' = [pc EXCEPT ![s] = "enter"]
                /\ UNCHANGED <<stack, scan_count, after, result, seen>>
    /\ UNCHANGED <<scan_id, stop_scan, scan_thread, exclude_patterns, excl_list,
                   status, stop_btn, current_tree, zoom_stack, flag, root_path,
                   uiPc, uiArg, log, asked, midwalk, captured>>
    /\ UNCHANGED <<rect_items, layoutVars, matcherVars>>

\* _scan_worker returns and the thread ends
worker_exit(s) ==
    /\ pc[s] = "exiting"
    /\ pc' = [pc EXCEPT ![s] = "dead"]
    /\ captured' = [captured EXCEPT ![s] = {}]
    /\ UNCHANGED <<scan_id, stop_scan, scan_thread, scan_count, exclude_patterns,
                   excl_list, status, stop_btn, current_tree, zoom_stack, flag,
                   root_path, stack, pend, after, uiPc, uiArg, log, asked, midwalk,
                   seen, result>>
    /\ UNCHANGED <<rect_items, layoutVars, matcherVars>>

(***************************************************************************)
(* Numbers of the layout.  The program computes with Python floats; here a *)
(* number is an exact fraction [n, d] in lowest terms with d > 0, and      *)
(* float("inf") is the fraction with d = 0.  Rounding is not modelled.     *)
(***************************************************************************)
Abs(i) == IF i < 0 THEN 0 - i ELSE i

RECURSIVE GCD(_, _)
GCD(a, b) == IF b = 0 THEN a ELSE GCD(b, a % b)

\* the fraction n/d, d # 0
Frac(n, d) ==
    LET g == GCD(Abs(n), Abs(d))
    IN  [n |-> (IF d < 0 THEN 0 - n ELSE n) \div g, d |-> Abs(d) \div g]

\* float(i)
Num(i) == [n |-> i, d |-> 1]

\* float("inf")
Inf == [n |-> 1, d |-> 0]

\* a + b, a - b, a * b, a / b for finite a and b (b # 0 in a / b)
Plus(a, b) ==
    LET g == GCD(a.d, b.d)
    IN  Frac(a.n * (b.d \div g) + b.n * (a.d \div g), a.d * (b.d \div g))

Minus(a, b) == Plus(a, [n |-> 0 - b.n, d |-> b.d])

Times(a, b) ==
    LET g == GCD(Abs(a.n), b.d)
        k == GCD(Abs(b.n), a.d)
    IN  [n |-> (a.n \div g) * (b.n \div k), d |-> (a.d \div k) * (b.d \div g)]

Over(a, b) == Times(a, Frac(b.d, b.n))

\* a <= b, where a or b may be infinite
Leq(a, b) ==
    IF b.d = 0 THEN TRUE
    ELSE IF a.d = 0 THEN FALSE
    ELSE LET g == GCD(a.d, b.d)
         IN  a.n * (b.d \div g) <= b.n * (a.d \div g)

Less(a, b) == ~Leq(b, a)

\* max(a, b) and min(a, b) of Python: the first argument wins a tie
MaxOf(a, b) == IF Less(a, b) THEN b ELSE a
MinOf(a, b) == IF Less(b, a) THEN b ELSE a

RECURSIVE SumOf(_), MaxIn(_), MinIn(_)
\* sum(row), max(row) and min(row) of a list of numbers
SumOf(row) == IF row = <<>> THEN Num(0) ELSE Plus(Head(row), SumOf(Tail(row)))
MaxIn(row) == IF Len(row) = 1 THEN row[1] ELSE MaxOf(row[1], MaxIn(Tail(row)))
MinIn(row) == IF Len(row) = 1 THEN row[1] ELSE MinOf(row[1], MinIn(Tail(row)))

(***************************************************************************)
(* Treemap mathematics: worst_aspect_ratio, layout_row, leftover_rect and  *)
(* squarify                                                                *)
(***************************************************************************)
\* Rect = (x, y, w, h)
Rect(x, y, w, h) == [x |-> x, y |-> y, w |-> w, h |-> h]

Sq(a) == Times(a, a)

\* lines 159-165
worst_aspect_ratio(row, short_side) ==
    IF row = <<>> \/ Leq(short_side, Num(0)) THEN Inf
    ELSE LET s == SumOf(row)
             mx == MaxIn(row)
             mn == MinIn(row)
         IN  MaxOf(Over(Times(Sq(short_side), mx), Sq(s)),
                   Over(Sq(s), Times(Sq(short_side), mn)))

RECURSIVE RowAcross(_, _, _, _), RowDown(_, _, _, _)
\* lines 178-181: the items of row from cx on, left to right
RowAcross(row, cx, y, row_h) ==
    IF row = <<>> THEN <<>>
    ELSE LET rw == Over(Head(row), row_h)
         IN  <<Rect(cx, y, rw, row_h)>> \o RowAcross(Tail(row), Plus(cx, rw), y, row_h)

\* lines 186-189: the items of row from cy on, top to bottom
RowDown(row, x, cy, col_w) ==
    IF row = <<>> THEN <<>>
    ELSE LET rh == Over(Head(row), col_w)
         IN  <<Rect(x, cy, col_w, rh)>> \o RowDown(Tail(row), x, Plus(cy, rh), col_w)

\* lines 167-190
layout_row(row, rect, horizontal) ==
    LET s == SumOf(row)
    IN  IF Leq(s, Num(0)) \/ Leq(rect.w, Num(0)) \/ Leq(rect.h, Num(0)) THEN <<>>
        ELSE IF horizontal
        THEN RowAcross(row, rect.x, rect.y, Over(s, rect.w))
        ELSE RowDown(row, rect.x, rect.y, Over(s, rect.h))

\* leftover_rect with a fault: the strip is stepped over but the rectangle is
\* not made smaller (C15 depends on lines 199 and 202)
leftover_rect_unshrunk(rect, row, horizontal) ==
    LET s == SumOf(row)
    IN  IF Leq(s, Num(0)) \/ Leq(rect.w, Num(0)) \/ Leq(rect.h, Num(0)) THEN rect
        ELSE IF horizontal
        THEN Rect(rect.x, Plus(rect.y, Over(s, rect.w)), rect.w, rect.h)
        ELSE Rect(Plus(rect.x, Over(s, rect.h)), rect.y, rect.w, rect.h)

\* lines 192-202
leftover_rect(rect, row, horizontal) ==
    LET s == SumOf(row)
    IN  IF Leq(s, Num(0)) \/ Leq(rect.w, Num(0)) \/ Leq(rect.h, Num(0)) THEN rect
        ELSE IF horizontal
        THEN LET row_h == Over(s, rect.w)
             IN  Rect(rect.x, Plus(rect.y, row_h), rect.w, Minus(rect.h, row_h))
        ELSE LET col_w == Over(s, rect.h)
             IN  Rect(Plus(rect.x, col_w), rect.y, Minus(rect.w, col_w), rect.h)

\* a row squarify lays out: the row, the remaining rectangle r it is laid in,
\* the direction, the rectangles out of layout_row and the rectangle left
Strip(row, r, horizontal) ==
    [row |-> row, r |-> r, horizontal |-> horizontal,
     out |-> layout_row(row, r, horizontal),
     left |-> leftover_rect(r, row, horizontal)]

RECURSIVE Strips(_, _, _)
\* the loop of lines 223-238 from the state (vals, r, row) on: the rows it
\* lays out, in order, the last one by lines 235-238
Strips(vals, r, row) ==
    IF vals = <<>>
    THEN IF row # <<>> THEN <<Strip(row, r, Leq(r.h, r.w))>> ELSE <<>>
    ELSE LET short == MinOf(r.w, r.h)
             v == Head(vals)
         IN  IF row = <<>> \/ Leq(worst_aspect_ratio(Append(row, v), short),
                                  worst_aspect_ratio(row, short))
             THEN Strips(Tail(vals), r, Append(row, v))
             ELSE LET horizontal == Leq(r.h, r.w)
                  IN  <<Strip(row, r, horizontal)>>
                          \o Strips(vals, leftover_rect(r, row, horizontal), <<>>)

\* [v for v in values if v > 0]
Positive(values) == SelectSeq(values, LAMBDA v : Less(Num(0), v))

\* Scaled with a fault: the values are multiplied by the area and not divided
\* by their total (C14 depends on line 216)
ScaledByArea(vals, rect) ==
    [i \in 1..Len(vals) |-> Times(vals[i], Times(rect.w, rect.h))]

\* [v * scale for v in vals], lines 214-217
Scaled(vals, rect) ==
    LET total == SumOf(vals)
        area == Times(rect.w, rect.h)
        scale == Over(area, total)
    IN  [i \in 1..Len(vals) |-> Times(vals[i], scale)]

\* the rows squarify(values, rect) lays out (none when it returns at line 207
\* or 211)
Rows(values, rect) ==
    IF Leq(rect.w, Num(1)) \/ Leq(rect.h, Num(1)) THEN <<>>
    ELSE IF Positive(values) = <<>> THEN <<>>
    ELSE Strips(Scaled(Positive(values), rect), rect, <<>>)

RECURSIVE ExtendBackwards(_, _)
\* Extend with a fault: each row's rectangles are put before those of the
\* rows laid out earlier (C13 depends on the order of lines 231 and 238)
ExtendBackwards(rows, k) ==
    IF k = 0 THEN <<>> ELSE rows[k].out \o ExtendBackwards(rows, k - 1)

RECURSIVE Extend(_, _)
\* out after out.extend(...) for each of the rows, lines 231 and 238
Extend(rows, k) == IF k = 0 THEN <<>> ELSE Extend(rows, k - 1) \o rows[k].out

\* lines 204-240
squarify(values, rect) == Extend(Rows(values, rect), Len(Rows(values, rect)))

(***************************************************************************)
(* UI thread: redraw                                                       *)
(***************************************************************************)
\* max(10, ...) of lines 573-574
MinCanvas == 10

\* padding, line 581
Padding == 6

\* where child i stands in node.sorted_children(): sorted() is stable and
\* reverse=True keeps equal sizes in their original order
RankOf(kids, i) ==
    Cardinality({j \in 1..Len(kids) : kids[j].size > kids[i].size})
    + Cardinality({j \in 1..(i - 1) : kids[j].size = kids[i].size}) + 1

\* Node.sorted_children, lines 78-79
sorted_children(node) ==
    LET kids == node.children
        at == [k \in 1..Len(kids) |-> CHOOSE i \in 1..Len(kids) : RankOf(kids, i) = k]
    IN  [k \in 1..Len(kids) |-> kids[at[k]]]

\* children, line 576
Shown(node) == SelectSeq(sorted_children(node), LAMBDA c : c.size > 0)

\* rect_area for a canvas of the size cv, lines 573-582
RectArea(cv) ==
    LET W == IF cv[1] > MinCanvas THEN cv[1] ELSE MinCanvas
        H == IF cv[2] > MinCanvas THEN cv[2] ELSE MinCanvas
    IN  Rect(Num(Padding), Num(Padding), Num(W - 2 * Padding), Num(H - 2 * Padding))

\* the slices of lines 588-601: child i starts where the slices of the
\* children before it end
Slices(children, r) ==
    LET n == Len(children)
        sum == SumSizes(children, 1, n)
        total == IF sum = 0 THEN 1 ELSE sum
        horizontal == Leq(r.h, r.w)
        part(lo, hi) == Frac(SumSizes(children, lo, hi), total)
    IN  [i \in 1..n |->
            IF horizontal
            THEN Rect(Plus(r.x, Times(r.w, part(1, i - 1))), r.y,
                      Times(r.w, part(i, i)), r.h)
            ELSE Rect(r.x, Plus(r.y, Times(r.h, part(1, i - 1))), r.w,
                      Times(r.h, part(i, i)))]

\* Layout with a fault: the fallback of lines 587-601 is absent (C16 depends
\* on it)
LayoutAsSquarified(children, r) ==
    squarify([i \in 1..Len(children) |-> Num(children[i].size)], r)

\* rects when the loop of line 605 starts, lines 583-601
Layout(children, r) ==
    LET rects == squarify([i \in 1..Len(children) |-> Num(children[i].size)], r)
    IN  IF Len(rects) # Len(children) THEN Slices(children, r) ELSE rects

\* self.rect_items after redraw() for the tree node on a canvas of the size
\* cv, lines 566-612; zip stops at the shorter of children and rects
Drawn(node, cv) ==
    IF node = NoNode THEN <<>>
    ELSE LET children == Shown(node)
             rects == Layout(children, RectArea(cv))
             n == IF Len(rects) < Len(children) THEN Len(rects) ELSE Len(children)
         IN  [i \in 1..n |-> [child |-> children[i], rect |-> rects[i]]]

(***************************************************************************)
(* UI thread: the queued callbacks                                         *)
(***************************************************************************)
\* apply_tree, line 524: is the tree of session s discarded
Discards(s) == s # scan_id \/ flag[s]

\* the lambda of line 507-508: is the progress text of session s shown
ShowsProgress(s) == s = scan_id

\* the event loop runs the oldest queued callback
run_callback ==
    /\ uiPc = "idle"
    /\ after # <<>>
    /\ LET cb == Head(after)
       IN  /\ after' = Tail(after)
           /\ CASE cb.kind = "progress" ->
                     /\ status' = IF ShowsProgress(cb.sid)
                                  THEN Label("Scanning", cb.n) ELSE status
                     /\ log' = IF ShowsProgress(cb.sid)
                               THEN Append(log, Applied(cb.sid, "Progress")) ELSE log
                     /\ UNCHANGED <<current_tree, zoom_stack, stop_btn, rect_items>>
                [] cb.kind = "stopped" ->
                     /\ status' = Label("Scan stopped", 0)
                     /\ log' = Append(log, Applied(cb.sid, "Cancelled"))
                     /\ UNCHANGED <<current_tree, zoom_stack, stop_btn, rect_items>>
                [] cb.kind = "failed" ->
                     /\ log' = Append(log, Applied(cb.sid, "Failed"))
                     /\ UNCHANGED <<status, current_tree, zoom_stack, stop_btn, rect_items>>
                [] cb.kind = "apply" ->
                     IF Discards(cb.sid)
                     THEN UNCHANGED <<status, log, current_tree, zoom_stack, stop_btn,
                                      rect_items>>
                     ELSE /\ current_tree' = cb.tree
                          /\ zoom_stack' = <<cb.tree>>
                          /\ rect_items' = Drawn(cb.tree, canvas)
                          /\ stop_btn' = "disabled"
                          /\ status' = Label("Done", 0)
                          /\ log' = Append(log, Applied(cb.sid, "Completed"))
    /\ UNCHANGED <<scan_id, stop_scan, scan_thread, scan_count, exclude_patterns,
                   excl_list, flag, pc, root_path, stack, pend, uiPc, uiArg, asked,
                   midwalk, seen, result, captured>>
    /\ UNCHANGED <<layoutVars, matcherVars>>

(***************************************************************************)
(* Specifications                                                          *)
(***************************************************************************)
\* the paths start_scanning is called with in Spec
Roots == {SubRoot, MissingRoot}

\* the paths start_scanning is called with in OneScan
AllRoots == {ProjectRoot, SubRoot, FileRoot, LinkRoot, MissingRoot, WideRoot}

Worker ==
    \E s \in Sessions :
        \/ worker_begin(s)
        \/ scan_enter(s)
        \/ scan_body(s)
        \/ scan_loop(s)
        \/ worker_exit(s)

Next ==
    \/ \E path \in Roots : start_scanning(path)
    \/ start_launch
    \/ stop_scanning
    \/ \E r \in Rules : on_add_pattern(r)
    \/ on_clear_excluded
    \/ run_callback
    \/ Worker

\* up to MaxScans scans of small roots, each superseding the one before
Spec == Init /\ [][Next]_vars

\* the first call of start_scanning
first_scan(path) == scan_id = 0 /\ start_scanning(path)

NextOne ==
    \/ \E path \in AllRoots : first_scan(path)
    \/ start_launch
    \/ stop_scanning
    \/ \E r \in Rules : on_add_pattern(r)
    \/ on_clear_excluded
    \/ run_callback
    \/ Worker

\* a single scan of any root, with Stop presses and rule edits interleaved
OneScan == Init /\ [][NextOne]_vars

\* the same; a worker thread that can take a step is eventually scheduled
FairOneScan == OneScan /\ WF_vars(Worker)

(***************************************************************************)
(* Exclusion rules as text.  A string is a sequence of characters; paths   *)
(* are those of a POSIX system, whose names hold no dots here, so that     *)
(* os.path.abspath has no "." or ".." segment to resolve.                  *)
(***************************************************************************)
Alphabet == {"/", "\\", "a", "B", "*"}

Strings(n) == UNION {[1..k -> Alphabet] : k \in 0..n}

\* str.lower
lower(s) == [i \in 1..Len(s) |-> IF s[i] = "B" THEN "b" ELSE s[i]]

\* s.replace("\\", "/")
replace(s) == [i \in 1..Len(s) |-> IF s[i] = "\\" THEN "/" ELSE s[i]]

RECURSIVE lstrip(_, _), rstrip(_, _)
\* s with the leading characters c removed
lstrip(s, c) == IF s # <<>> /\ Head(s) = c THEN lstrip(Tail(s), c) ELSE s

\* s.rstrip(c)
rstrip(s, c) ==
    IF s # <<>> /\ s[Len(s)] = c THEN rstrip(SubSeq(s, 1, Len(s) - 1), c) ELSE s

\* s.strip()
strip(s) == rstrip(lstrip(s, " "), " ")

\* s.startswith(prefix)
startswith(s, prefix) == Len(prefix) <= Len(s) /\ SubSeq(s, 1, Len(prefix)) = prefix

\* os.path.isabs
isabs(s) == startswith(s, <<"/">>)

RECURSIVE split(_, _)
\* (cur + s).split("/") for a piece cur without slash
split(s, cur) ==
    IF s = <<>> THEN <<cur>>
    ELSE IF Head(s) = "/" THEN <<cur>> \o split(Tail(s), <<>>)
    ELSE split(Tail(s), Append(cur, Head(s)))

RECURSIVE join(_)
\* "/".join(comps)
join(comps) ==
    IF comps = <<>> THEN <<>>
    ELSE IF Len(comps) = 1 THEN comps[1]
    ELSE comps[1] \o <<"/">> \o join(Tail(comps))

\* os.path.abspath of an absolute path: posixpath.normpath drops the empty
\* segments and keeps one leading slash, or two when there are exactly two
abspath(s) ==
    LET comps == SelectSeq(split(s, <<>>), LAMBDA c : c # <<>>)
        initial == IF startswith(s, <<"/", "/">>) /\ ~startswith(s, <<"/", "/", "/">>)
                   THEN <<"/", "/">> ELSE <<"/">>
    IN  initial \o join(comps)

\* os.path.basename(path) or path, line 101
basename(s) ==
    LET parts == split(s, <<>>)
    IN  IF parts[Len(parts)] # <<>> THEN parts[Len(parts)] ELSE s

RECURSIVE fnmatch(_, _)
\* fnmatch.fnmatch for patterns whose only wildcard is "*"
fnmatch(s, pat) ==
    IF pat = <<>> THEN s = <<>>
    ELSE IF Head(pat) = "*"
    THEN fnmatch(s, Tail(pat)) \/ (s # <<>> /\ fnmatch(Tail(s), pat))
    ELSE s # <<>> /\ Head(s) = Head(pat) /\ fnmatch(Tail(s), Tail(pat))

\* _get_exclude_patterns for the Listbox items, lines 355-367
get_exclude_patterns(items) ==
    LET kept == SelectSeq(items, LAMBDA p : strip(p) # <<>>)
    IN  [i \in 1..Len(kept) |->
            IF isabs(strip(kept[i])) THEN replace(abspath(strip(kept[i])))
            ELSE strip(kept[i])]

\* UnderBase with a fault: the rule is compared as a raw prefix (C20 depends
\* on the "/" of line 386)
UnderBaseRaw(path_n, base) == startswith(path_n, base)

\* line 386
UnderBase(path_n, base) == path_n = base \/ startswith(path_n, base \o <<"/">>)

\* one turn of the loop of lines 378-398 for the rule pat: "yes" for return
\* True, "next" when the loop goes on to the next rule
RuleSays(pat, path_n, name_n) ==
    LET pat_s == strip(pat)
        is_abs == isabs(pat_s)
        pat_n == lower(IF is_abs THEN replace(pat_s) ELSE pat_s)
    IN  IF pat_s = <<>> THEN "next"
        ELSE IF is_abs
        THEN IF UnderBase(path_n, rstrip(pat_n, "/")) THEN "yes" ELSE "next"
        ELSE IF fnmatch(name_n, pat_n) \/ fnmatch(path_n, pat_n) THEN "yes"
        ELSE IF (\A i \in 1..Len(pat_n) : pat_n[i] # "*") /\ name_n = pat_n THEN "yes"
        ELSE "next"

\* _should_exclude(path, is_dir, name) with self.exclude_patterns = patterns,
\* lines 369-400
ShouldExclude(patterns, path, name) ==
    LET path_n == lower(replace(abspath(path)))
        name_n == lower(name)
    IN  \E i \in 1..Len(patterns) : RuleSays(patterns[i], path_n, name_n) = "yes"

\* the rules typed into the Listbox and the paths asked about
TypedRules == Strings(MaxRule)
Candidates == {<<"/">> \o s : s \in Strings(MaxPath)}

\* the rule typed is captured as start_scanning does (line 469) and
\* _should_exclude is called as _scan calls it (lines 101-105)
exclude_call ==
    /\ verdict' = IF ShouldExclude(get_exclude_patterns(<<typed>>), cand, basename(cand))
                  THEN "yes" ELSE "no"
    /\ UNCHANGED <<scan_id, stop_scan, scan_thread, scan_count, exclude_patterns,
                   excl_list, status, stop_btn, current_tree, zoom_stack, flag, pc,
                   root_path, stack, pend, after, uiPc, uiArg, log, asked, midwalk,
                   seen, result, captured>>
    /\ UNCHANGED <<rect_items, layoutVars, typed, cand>>

MatcherInit ==
    /\ Quiet
    /\ current_tree = NoNode
    /\ zoom_stack = <<>>
    /\ canvas = <<1, 1>>
    /\ rect_items = <<>>
    /\ weights = <<>>
    /\ placed = NoLayout
    /\ run = NoRun
    /\ typed \in TypedRules
    /\ cand \in Candidates
    /\ verdict = ""

\* _should_exclude is asked once about any path, with any one rule in the list
Matcher == MatcherInit /\ [][exclude_call]_vars

\* the lists of values that are laid out
WeightLists == UNION {[1..n -> 0..MaxWeight] : n \in 0..MaxItems}

\* the widths and the heights the canvas takes: 1 before the window is
\* mapped, and sizes for which rect_area has the sides 0..(MaxCanvas - 12)
CanvasSizes == {1} \cup ((2 * Padding)..MaxCanvas)

\* the tree of a directory whose files have the sizes w, in directory order
TreeOf(w) ==
    Node(<<0>>, "t", "", SumOf([i \in 1..Len(w) |-> Num(w[i])]).n, TRUE,
         [i \in 1..Len(w) |-> Node(<<0, i>>, "c", "", w[i], FALSE, <<>>)])

\* the first scan has completed and its tree was applied by apply_tree
Displaying(tree) ==
    /\ scan_id = 1
    /\ stop_scan = 1
    /\ scan_thread = 1
    /\ scan_count = Len(tree.children)
    /\ exclude_patterns = {}
    /\ excl_list = {}
    /\ status = Label("Done", 0)
    /\ stop_btn = "disabled"
    /\ current_tree = tree
    /\ zoom_stack = <<tree>>
    /\ flag = [s \in 0..MaxScans |-> FALSE]
    /\ pc = [s \in Sessions |-> IF s = 1 THEN "dead" ELSE "none"]
    /\ root_path = [s \in Sessions |-> IF s = 1 THEN tree.path ELSE <<>>]
    /\ stack = [s \in Sessions |-> <<>>]
    /\ pend = [s \in Sessions |-> <<>>]
    /\ after = <<>>
    /\ uiPc = "idle"
    /\ uiArg = <<>>
    /\ log = <<[sid |-> 1, kind |-> "Completed", cur |-> 1]>>
    /\ asked = {}
    /\ midwalk = {}
    /\ seen = {}
    /\ result = [s \in Sessions |-> IF s = 1 THEN tree ELSE NoNode]
    /\ captured = [s \in Sessions |-> {}]
    /\ rect_items = Drawn(tree, canvas)

\* the <Configure> binding of line 347: the canvas has got the size cv and
\* redraw() runs
on_configure(cv) ==
    /\ uiPc = "idle"
    /\ canvas' = cv
    /\ rect_items' = Drawn(current_tree, cv)
    /\ UNCHANGED <<scan_id, stop_scan, scan_thread, scan_count, exclude_patterns,
                   excl_list, status, stop_btn, current_tree, zoom_stack, flag, pc,
                   root_path, stack, pend, after, uiPc, uiArg, log, asked, midwalk,
                   seen, result, captured>>
    /\ UNCHANGED <<weights, placed, run, matcherVars>>

\* the widths and the heights the window is resized to while a tree is on
\* display: those for which rect_area has the sides -2, 1 and MaxCanvas - 12
ResizedTo == {1, 2 * Padding + 1, MaxCanvas}

\* the tree was applied before the window got its size
DrawingInit ==
    /\ weights \in WeightLists
    /\ canvas = <<1, 1>>
    /\ Displaying(TreeOf(weights))
    /\ placed = NoLayout
    /\ run = NoRun
    /\ typed = <<>>
    /\ cand = <<>>
    /\ verdict = ""

DrawingNext == \E cv \in ResizedTo \X ResizedTo : on_configure(cv)

\* a directory with files of the sizes weights is on display and the window
\* is resized
Drawing == DrawingInit /\ [][DrawingNext]_vars

\* the call squarify(weights, rect_area), lines 204-240
squarify_call ==
    /\ placed' = [rows |-> Rows([i \in 1..Len(weights) |-> Num(weights[i])],
                                RectArea(canvas)),
                  out |-> squarify([i \in 1..Len(weights) |-> Num(weights[i])],
                                   RectArea(canvas)),
                  called |-> TRUE]
    /\ UNCHANGED <<scan_id, stop_scan, scan_thread, scan_count, exclude_patterns,
                   excl_list, status, stop_btn, current_tree, zoom_stack, flag, pc,
                   root_path, stack, pend, after, uiPc, uiArg, log, asked, midwalk,
                   seen, result, captured>>
    /\ UNCHANGED <<canvas, rect_items, weights, run, matcherVars>>

SquarifyInit ==
    /\ Quiet
    /\ current_tree = NoNode
    /\ zoom_stack = <<>>
    /\ rect_items = <<>>
    /\ weights \in WeightLists
    /\ canvas \in CanvasSizes \X CanvasSizes
    /\ placed = NoLayout
    /\ run = NoRun
    /\ typed = <<>>
    /\ cand = <<>>
    /\ verdict = ""

\* squarify is called once with any list of values, for the rect_area of any
\* canvas
Squarify == SquarifyInit /\ [][squarify_call]_vars

\* the locals after row.append(vals.pop(0)), line 227
Accepted(st) ==
    [st EXCEPT !.vals = Tail(st.vals), !.row = Append(st.row, Head(st.vals)),
               !.iterations = st.iterations + 1]

\* Flushed with a fault: the row is not emptied (C22 depends on line 232)
FlushedRowKept(st) ==
    LET horizontal == Leq(st.r.h, st.r.w)
    IN  [st EXCEPT !.rows = Append(st.rows, Strip(st.row, st.r, horizontal)),
                   !.r = leftover_rect(st.r, st.row, horizontal),
                   !.iterations = st.iterations + 1]

\* the locals after lines 229-232: the row is laid out, r is what is left of
\* it, the row is empty again
Flushed(st) ==
    LET horizontal == Leq(st.r.h, st.r.w)
    IN  [st EXCEPT !.rows = Append(st.rows, Strip(st.row, st.r, horizontal)),
                   !.r = leftover_rect(st.r, st.row, horizontal),
                   !.row = <<>>,
                   !.iterations = st.iterations + 1]

\* the test of line 226
Accepts(st) ==
    \/ st.row = <<>>
    \/ Leq(worst_aspect_ratio(Append(st.row, Head(st.vals)), MinOf(st.r.w, st.r.h)),
           worst_aspect_ratio(st.row, MinOf(st.r.w, st.r.h)))

\* squarify(w, rect_area) is entered, lines 205-221: it returns at once
\* (lines 207 and 211) or reaches the loop with the scaled values
squarify_begin(w) ==
    /\ run.at = "idle"
    /\ weights' = w
    /\ LET values == [i \in 1..Len(w) |-> Num(w[i])]
           rect == RectArea(canvas)
       IN  IF Leq(rect.w, Num(1)) \/ Leq(rect.h, Num(1)) \/ Positive(values) = <<>>
           THEN /\ run' = [run EXCEPT !.at = "done"]
                /\ placed' = [rows |-> <<>>, out |-> <<>>, called |-> TRUE]
           ELSE /\ run' = [run EXCEPT !.at = "loop",
                                      !.vals = Scaled(Positive(values), rect),
                                      !.all = Scaled(Positive(values), rect),
                                      !.r = rect]
                /\ UNCHANGED placed
    /\ UNCHANGED <<scan_id, stop_scan, scan_thread, scan_count, exclude_patterns,
                   excl_list, status, stop_btn, current_tree, zoom_stack, flag, pc,
                   root_path, stack, pend, after, uiPc, uiArg, log, asked, midwalk,
                   seen, result, captured>>
    /\ UNCHANGED <<canvas, rect_items, matcherVars>>

\* one iteration of the loop of lines 223-233
squarify_iterate ==
    /\ run.at = "loop"
    /\ run.vals # <<>>
    /\ run' = IF Accepts(run) THEN Accepted(run) ELSE Flushed(run)
    /\ UNCHANGED <<scan_id, stop_scan, scan_thread, scan_count, exclude_patterns,
                   excl_list, status, stop_btn, current_tree, zoom_stack, flag, pc,
                   root_path, stack, pend, after, uiPc, uiArg, log, asked, midwalk,
                   seen, result, captured>>
    /\ UNCHANGED <<canvas, rect_items, weights, placed, matcherVars>>

\* the loop has ended: the last row is laid out and out is returned, lines
\* 235-240
squarify_return ==
    /\ run.at = "loop"
    /\ run.vals = <<>>
    /\ LET rows == IF run.row # <<>>
                   THEN Append(run.rows, Strip(run.row, run.r, Leq(run.r.h, run.r.w)))
                   ELSE run.rows
       IN  /\ run' = [run EXCEPT !.at = "done", !.rows = rows, !.row = <<>>]
           /\ placed' = [rows |-> rows, out |-> Extend(rows, Len(rows)), called |-> TRUE]
    /\ UNCHANGED <<scan_id, stop_scan, scan_thread, scan_count, exclude_patterns,
                   excl_list, status, stop_btn, current_tree, zoom_stack, flag, pc,
                   root_path, stack, pend, after, uiPc, uiArg, log, asked, midwalk,
                   seen, result, captured>>
    /\ UNCHANGED <<canvas, rect_items, weights, matcherVars>>

\* the window has some size and squarify was not called yet
SteppingInit ==
    /\ Quiet
    /\ current_tree = NoNode
    /\ zoom_stack = <<>>
    /\ rect_items = <<>>
    /\ canvas \in CanvasSizes \X CanvasSizes
    /\ NoCalls

SteppingNext ==
    \/ \E w \in WeightLists : squarify_begin(w)
    \/ squarify_iterate
    \/ squarify_return

\* one call of squarify with any list of values, for the rect_area of any
\* canvas, taken one iteration of its loop at a time
Stepping == SteppingInit /\ [][SteppingNext]_vars

(***************************************************************************)
(* UI thread: zooming.  The handlers of the canvas and of the breadcrumb   *)
(* bar, run between scans and while a scan is under way.                   *)
(***************************************************************************)
\* the assignments of lines 670-671, 700-701 and 551-552: zoom_stack becomes
\* zs and current_tree its last node
ZoomedTo(zs) ==
    /\ uiPc = "idle"
    /\ zoom_stack' = zs
    /\ current_tree' = zoom_stack'[Len(zoom_stack')]

\* on_left_click, lines 666-674, for a click on the rectangle i of rect_items
\* (_node_at, lines 639-646): a directory with children is zoomed into; any
\* other click changes nothing
on_left_click(i) ==
    /\ i \in 1..Len(rect_items)
    /\ rect_items[i].child.is_dir
    /\ rect_items[i].child.children # <<>>
    /\ ZoomedTo(Append(zoom_stack, rect_items[i].child))

\* zoom_out, lines 698-703: nothing changes unless the stack holds two nodes
zoom_out ==
    /\ Len(zoom_stack) > 1
    /\ ZoomedTo(SubSeq(zoom_stack, 1, Len(zoom_stack) - 1))

\* the callback of a breadcrumb button, lines 549-554; _draw_breadcrumb has
\* made one button for each node of zoom_stack (index is 1-based here)
breadcrumb_jump(index) ==
    /\ index \in 1..Len(zoom_stack)
    /\ ZoomedTo(SubSeq(zoom_stack, 1, index))

\* self._update_header(...) and self.redraw(), the last two statements of
\* each of the three handlers
redraw ==
    /\ rect_items' = Drawn(current_tree', canvas)
    /\ UNCHANGED <<scan_id, stop_scan, scan_thread, scan_count, exclude_patterns,
                   excl_list, status, stop_btn, flag, pc, root_path, stack, pend,
                   after, uiPc, uiArg, log, asked, midwalk, seen, result, captured>>
    /\ UNCHANGED <<canvas, layoutVars, matcherVars>>

\* a click on the canvas, on the Up button or on a breadcrumb button, run to
\* the end of its handler
zoom ==
    /\ \/ \E i \in 1..MaxItems : on_left_click(i)
       \/ zoom_out
       \/ \E index \in 1..MaxItems : breadcrumb_jump(index)
    /\ redraw

\* the size the canvas gets when the window is mapped; <Configure> is
\* delivered when the size changes
Mapped == <<MaxCanvas, MaxCanvas>>

ZoomingNext ==
    \/ start_scanning(ProjectRoot)
    \/ start_launch
    \/ stop_scanning
    \/ run_callback
    \/ Worker
    \/ canvas # Mapped /\ on_configure(Mapped)
    \/ zoom

\* up to MaxScans scans of the project directory, with Stop presses, clicks
\* on the canvas, the Up button, the breadcrumb buttons and a resize of the
\* window interleaved
Zooming == Init /\ [][ZoomingNext]_vars

(***************************************************************************)
(* Properties                                                              *)
(***************************************************************************)
TerminalKinds == {"Completed", "Cancelled", "Failed"}

LogIndex == 1..Len(log)

\* the results of kind k applied for session s so far
AppliedAs(s, k) == {i \in LogIndex : log[i].sid = s /\ log[i].kind = k}

Terminals(s) == {i \in LogIndex : log[i].sid = s /\ log[i].kind \in TerminalKinds}

\* session s is the current one, its worker has ended, none of its callbacks
\* is queued and the UI thread is idle: nothing more will be delivered for it
Settled(s) ==
    /\ s = scan_id
    /\ uiPc = "idle"
    /\ pc[s] = "dead"
    /\ \A i \in 1..Len(after) : after[i].sid # s

\* C1: every result applied to the UI belongs to the session that is current
\* at the moment it is applied; results of a superseded scan are discarded.
StaleResultsDiscarded == \A i \in LogIndex : log[i].sid = log[i].cur

\* C2: a session whose stop flag was set by stop_scanning while its worker was
\* inside the walk, and which no later scan superseded, has delivered the
\* Cancelled outcome ("Scan stopped") once nothing more can be delivered.
MidwalkStopIsCancelled ==
    \A s \in Sessions : (s \in midwalk /\ Settled(s)) => AppliedAs(s, "Cancelled") # {}

\* C3: a session for which cancellation was requested (stop_scanning ran) before
\* its tree was applied never reaches the Completed outcome.
AskedNeverCompleted == \A s \in asked : AppliedAs(s, "Completed") = {}

\* C4: once a cancellation check of the walk has observed the stop flag set,
\* scan_directory fails with "Scan stopped" and returns no Node.
ObservedStopRaises ==
    \A s \in Sessions : (s \in seen /\ result[s] # NoNode) => result[s] = Stopped

\* C5: a session never delivers more than one terminal outcome, and a session
\* that was not superseded has delivered exactly one once nothing more can be
\* delivered for it.
ExactlyOneTerminal ==
    /\ \A s \in Sessions : Cardinality(Terminals(s)) <= 1
    /\ \A s \in Sessions : Settled(s) => Cardinality(Terminals(s)) = 1

\* C6: no progress update of a session is applied after a terminal outcome of
\* that session.
ProgressBeforeTerminal ==
    \A i, j \in LogIndex :
        (i < j /\ log[i].sid = log[j].sid /\ log[i].kind \in TerminalKinds)
            => log[j].kind # "Progress"

\* C6 witness: a progress update was applied and, later, the terminal outcome
\* of the same session.
ProgressThenTerminalSeen ==
    \E i, j \in LogIndex :
        /\ i < j
        /\ log[i].sid = log[j].sid
        /\ log[i].kind = "Progress"
        /\ log[j].kind \in TerminalKinds

\* C7: a scan whose root cannot be stat'd never ends Completed, and ends Failed
\* when it was neither cancelled nor superseded.
MissingRootFails ==
    \A s \in Sessions :
        (pc[s] # "none" /\ LstatFails(root_path[s])) =>
            /\ AppliedAs(s, "Completed") = {}
            /\ (Settled(s) /\ s \notin asked) => AppliedAs(s, "Failed") # {}

(***************************************************************************)
(* Properties of the returned tree                                         *)
(***************************************************************************)
RECURSIVE WellSized(_)
\* every directory of the tree is as large as its children together
WellSized(t) ==
    /\ t.is_dir => t.size = SumSizes(t.children, 1, Len(t.children))
    /\ \A i \in 1..Len(t.children) : WellSized(t.children[i])

RECURSIVE NodesOf(_)
\* all nodes of a tree
NodesOf(t) == {t} \cup UNION {NodesOf(t.children[i]) : i \in 1..Len(t.children)}

\* scan_directory returned a Node to worker s
Returned(s) == result[s] # NoNode /\ result[s] # Stopped

\* C8: in every tree scan_directory returns, the size of each directory node
\* is the sum of the sizes of its children (0 without children).
DirSizeIsSumOfChildren == \A s \in Sessions : Returned(s) => WellSized(result[s])

\* C8 witness: a whole walk returned a root with a file and a subdirectory
\* that holds a file, and no cancellation was observed.
NestedTreeReturned ==
    /\ Returned(1)
    /\ 1 \notin seen
    /\ result[1].size > 0
    /\ \E i \in 1..Len(result[1].children) :
           /\ result[1].children[i].is_dir
           /\ result[1].children[i].size > 0
           /\ result[1].children[i].size < result[1].size

\* does a rule captured for the scan match the entry at p
Excluded(p) == \E pat \in exclude_patterns : RuleMatches(pat, p, Entry(p).name)

\* is the entry at p, or a directory between the root r and p, excluded
Hidden(r, p) ==
    \E n \in (Len(r) + 1)..Len(p) : Excluded(SubSeq(p, 1, n))

RECURSIVE VisibleSize(_, _), VisibleSum(_, _, _, _)
\* the bytes of the files at or below p that no rule hides, seen from root r
VisibleSize(r, p) ==
    IF Hidden(r, p) THEN 0
    ELSE IF Entry(p).kind = "file" THEN Entry(p).size
    ELSE IF Entry(p).kind = "dir" THEN VisibleSum(r, p, 1, Len(Entry(p).kids))
    ELSE 0

\* the same for the entries lo..hi of directory p
VisibleSum(r, p, lo, hi) ==
    IF lo > hi THEN 0
    ELSE IF lo = hi THEN VisibleSize(r, Append(p, lo))
    ELSE LET mid == (lo + hi) \div 2
         IN  VisibleSum(r, p, lo, mid) + VisibleSum(r, p, mid + 1, hi)

\* C9: in a returned tree no excluded entry below the root, and no descendant
\* of one, is a node; no node is larger than the files below it that are not
\* excluded (equal when the walk ran to its end); the root is always there.
ExcludedEntriesAbsent ==
    \A s \in Sessions :
        Returned(s) =>
            /\ result[s].path = root_path[s]
            /\ \A n \in NodesOf(result[s]) :
                   /\ ~Hidden(root_path[s], n.path)
                   /\ n.size <= VisibleSize(root_path[s], n.path)
                   /\ (s \notin seen /\ n.tag = "") =>
                          n.size = VisibleSize(root_path[s], n.path)

\* C9 witness: a whole walk of the project directory returned while the rule
\* "sub" was in force, so that only the 2 bytes outside sub are counted.
ExcludedSubtreeSkipped ==
    /\ Returned(1)
    /\ 1 \notin seen
    /\ root_path[1] = ProjectRoot
    /\ Excluded(SubRoot)
    /\ result[1].size = 2

(***************************************************************************)
(* Properties of failing entries and of links                              *)
(***************************************************************************)
\* lstat of the entry, or scandir of the directory, fails
Failing(p) == Entry(p).kind \in {"gone", "denied", "broken"}

\* the child node of n for the entry at q, as a set (empty without one)
ChildFor(n, q) == {n.children[j] : j \in {k \in 1..Len(n.children) : n.children[k].path = q}}

\* C18: a walk that never observed the stop flag returns a tree in which a
\* failing entry is a tagged node of size 0 without children, and in which
\* every entry of an enumerated directory that no rule excludes has its node,
\* with its own size, whatever failed beside it.
FailuresStayLocal ==
    \A s \in Sessions :
        (Returned(s) /\ s \notin seen) =>
            \A n \in NodesOf(result[s]) :
                /\ Failing(n.path) =>
                       /\ n.size = 0 /\ n.children = <<>>
                       /\ n.tag \in {"stat error", "denied", "error"}
                /\ (n.is_dir /\ n.tag = "") =>
                       \A i \in 1..Len(Listing(n.path)) :
                           LET q == Append(n.path, i)
                           IN  ~Excluded(q) =>
                                   \E c \in ChildFor(n, q) :
                                       /\ c.size = VisibleSize(root_path[s], q)
                                       /\ Failing(q) <=> c.tag \in {"stat error", "denied", "error"}

\* C18 witness: a whole walk of the project directory returned the three
\* failing entries as tagged nodes beside the file a and the directory sub.
FailuresBesideSiblings ==
    /\ Returned(1)
    /\ 1 \notin seen
    /\ root_path[1] = ProjectRoot
    /\ Len(result[1].children) = 6
    /\ result[1].size = 3
    /\ {result[1].children[j].tag : j \in 1..6} =
           {"", "symlink", "stat error", "denied", "error"}

\* the nodes worker s has built: those of the returned tree and those
\* collected so far in the frames of its walk
Built(s) ==
    (IF Returned(s) THEN NodesOf(result[s]) ELSE {})
        \cup UNION {UNION {NodesOf(stack[s][k].kids[j]) : j \in 1..Len(stack[s][k].kids)} :
                        k \in 1..Len(stack[s])}

\* the directories worker s has enumerated or is enumerating
Visited(s) ==
    {stack[s][k].path : k \in 1..Len(stack[s])}
        \cup {n.path : n \in {m \in Built(s) : m.is_dir /\ m.tag = ""}}

\* the path p leads through a link, or ends at one
ThroughLink(p) == \E n \in 1..Len(p) : IsLink(SubSeq(p, 1, n))

RECURSIVE Real(_)
\* the path of the real entry p leads to, every link on the way followed
Real(p) ==
    IF p = <<>> THEN <<>>
    ELSE LET q == Append(Real(SubSeq(p, 1, Len(p) - 1)), p[Len(p)])
         IN  IF IsLink(q) /\ Entry(q).target # <<>> THEN Entry(q).target ELSE q

\* a link is a leaf: its node is the "[symlink]" node, which every link has
\* that no rule excludes, and no directory is entered through it; no real
\* directory is enumerated twice
LinksAreLeaves ==
    \A s \in Sessions :
        /\ \A n \in Built(s) :
               IsLink(n.path) =>
                   n = Node(n.path, NameOf(n.path), "symlink", 0, FALSE, <<>>)
        /\ (Returned(s) /\ s \notin seen) =>
               \A n \in NodesOf(result[s]) :
                   (n.is_dir /\ n.tag = "") =>
                       \A i \in 1..Len(Listing(n.path)) :
                           LET q == Append(n.path, i)
                           IN  (IsLink(q) /\ ~Excluded(q)) => ChildFor(n, q) # {}
        /\ \A p \in Visited(s) : ~ThroughLink(p)
        /\ \A p, q \in Visited(s) : Real(p) = Real(q) => p = q

\* C19: a symbolic link is always a zero-size leaf tagged "[symlink]" and is
\* never enumerated, also when it points to a directory; so the walk of a
\* filesystem whose links form a cycle enumerates each real directory at most
\* once, and it ends.
SymlinksAreLeaves ==
    /\ []LinksAreLeaves
    /\ \A s \in Sessions : (pc[s] = "begin") ~> (pc[s] = "dead")

\* C19 witness: a whole walk of the project directory returned; its tree holds
\* the node of the link d/ln, which points back to d.
CyclicLinkReturned ==
    /\ Returned(1)
    /\ 1 \notin seen
    /\ root_path[1] = ProjectRoot
    /\ \E n \in NodesOf(result[1]) :
           /\ IsLink(n.path)
           /\ IsPrefix(Entry(n.path).target, n.path)

(***************************************************************************)
(* Properties of start_scanning                                            *)
(***************************************************************************)
\* the worker of session s has been started and has not ended
Running(s) == pc[s] \notin {"none", "dead"}

\* C10: once start_scanning has called stop_scanning, the prior worker, if it
\* is still running, has its flag set: this holds before the new id is issued
\* and the new worker launched, and for every superseded worker afterwards;
\* and the rest of start_scanning can always run, whatever the prior worker
\* does.
PriorCancelledAndStartCompletes ==
    /\ uiPc = "starting" => (IsAlive => flag[scan_thread])
    /\ uiPc = "starting" => ENABLED start_launch
    /\ \A s \in Sessions : (s < scan_id /\ Running(s)) => flag[s]

\* C10 witness: the new worker was launched while the prior worker is still in
\* its walk and has not observed its flag.
LaunchedBesideRunningPrior ==
    /\ scan_id = 2
    /\ pc[2] = "begin"
    /\ pc[1] = "loop"
    /\ flag[1]
    /\ 1 \notin seen

(***************************************************************************)
(* Properties of concurrent scans                                          *)
(***************************************************************************)
\* worker s takes the step in which _scan asks self._should_exclude about an
\* entry (line 105; the root is never asked about)
Decides(s) == pc[s] = "body" /\ stack[s] # <<>> /\ pc'[s] # "body"

\* C11: every exclusion decision of a scan consults the rule list captured
\* when that scan was started, whatever the user edits in the list and
\* whatever later scan is started meanwhile.
RulesAreSnapshot ==
    [][\A s \in Sessions : Decides(s) => exclude_patterns = captured[s]]_vars

\* worker s takes a step
Stepped(s) == pc'[s] # pc[s] \/ stack'[s] # stack[s]

\* C12: concurrent workers share no variable but the session id; in particular
\* the progress count belongs to the current session: no step of a worker
\* of another session changes it.
CountsOwnTicks ==
    [][\A s \in Sessions : (Stepped(s) /\ s # scan_id) => scan_count' = scan_count]_vars

(***************************************************************************)
(* Properties of squarify                                                  *)
(***************************************************************************)
\* the arguments of the call squarify_call makes
Values == [i \in 1..Len(weights) |-> Num(weights[i])]
Given == RectArea(canvas)

AllPositive == weights # <<>> /\ \A i \in 1..Len(weights) : weights[i] > 0

RectAreaOf(q) == Times(q.w, q.h)

RECURSIVE Before(_, _)
\* how many values the rows before row j hold
Before(rows, j) == IF j = 1 THEN 0 ELSE Before(rows, j - 1) + Len(rows[j - 1].row)

\* out has one rectangle for each value, and the rectangle at the place of a
\* value is the one layout_row made for it: the k-th value of row j is the
\* value at the same place of the input, its rectangle is the k-th that
\* layout_row gave for row j, with the area of the value, and it is at the
\* same place in out
OnePerValueInOrder ==
    LET rows == placed.rows
        vals == Scaled(Values, Given)
    IN  /\ Len(placed.out) = Len(weights)
        /\ Before(rows, Len(rows) + 1) = Len(weights)
        /\ \A j \in 1..Len(rows) :
               /\ Len(rows[j].out) = Len(rows[j].row)
               /\ \A k \in 1..Len(rows[j].row) :
                      /\ rows[j].row[k] = vals[Before(rows, j) + k]
                      /\ RectAreaOf(rows[j].out[k]) = rows[j].row[k]
                      /\ placed.out[Before(rows, j) + k] = rows[j].out[k]

RECURSIVE AreaUpTo(_, _)
\* the areas of the first k rectangles of rects together
AreaUpTo(rects, k) ==
    IF k = 0 THEN Num(0) ELSE Plus(AreaUpTo(rects, k - 1), RectAreaOf(rects[k]))

RECURSIVE WeightUpTo(_)
WeightUpTo(k) == IF k = 0 THEN 0 ELSE WeightUpTo(k - 1) + weights[k]

\* C14: for positive weights and a rectangle wider and higher than 1, the
\* area of the i-th rectangle is the i-th weight times (area of the rectangle
\* / sum of the weights), and the areas add up to width * height.
AreasProportional ==
    (placed.called /\ AllPositive /\ Less(Num(1), Given.w) /\ Less(Num(1), Given.h))
        => LET share == Frac(Given.w.n * Given.h.n, WeightUpTo(Len(weights)))
           IN  /\ Len(placed.out) = Len(weights)
               /\ \A i \in 1..Len(weights) :
                      RectAreaOf(placed.out[i]) = Times(Num(weights[i]), share)
               /\ AreaUpTo(placed.out, Len(placed.out)) = Num(Given.w.n * Given.h.n)

\* C14 witness: unequal positive weights were laid out in more than one row
\* of a rectangle that is not a square.
UnequalWeightsLaidOut ==
    /\ placed.called
    /\ AllPositive
    /\ Len(weights) > 1
    /\ weights[1] # weights[2]
    /\ Given.w # Given.h
    /\ Less(Num(1), Given.w)
    /\ Len(placed.rows) > 1
    /\ Len(placed.out) = Len(weights)

\* the rectangle q lies within the rectangle r
Within(q, r) ==
    /\ Leq(r.x, q.x)
    /\ Leq(r.y, q.y)
    /\ Leq(Plus(q.x, q.w), Plus(r.x, r.w))
    /\ Leq(Plus(q.y, q.h), Plus(r.y, r.h))

RatioOf(q) == MaxOf(Over(q.w, q.h), Over(q.h, q.w))

RECURSIVE WorstOf(_, _)
\* the largest such ratio among the first k rectangles of rects
WorstOf(rects, k) ==
    IF k = 1 THEN RatioOf(rects[1]) ELSE MaxOf(WorstOf(rects, k - 1), RatioOf(rects[k]))

\* C17: every row squarify lays out is a strip along the shorter side of the
\* remaining rectangle, and the value worst_aspect_ratio(row, min(w, h)) of
\* the greedy decision is the largest longer-side/shorter-side ratio among
\* the rectangles layout_row emits for the row in that rectangle.
CriterionIsWorstEmittedRatio ==
    placed.called =>
        \A j \in 1..Len(placed.rows) :
            LET row == placed.rows[j]
            IN  row.out # <<>> =>
                    /\ IF row.horizontal THEN Leq(row.r.w, row.r.h) ELSE Leq(row.r.h, row.r.w)
                    /\ worst_aspect_ratio(row.row, MinOf(row.r.w, row.r.h))
                           = WorstOf(row.out, Len(row.out))

(***************************************************************************)
(* Properties of redraw                                                    *)
(***************************************************************************)
\* the children of the displayed node that have a size above 0
Sizable == {i \in 1..Len(current_tree.children) : current_tree.children[i].size > 0}

\* the rectangles drawn are one slice per child along the axis: the first
\* starts at the origin of r, each next one where the one before ends, each as
\* long as its child's share of the total size, all as thick as r
SlicedAlong(r, across) ==
    LET n == Len(rect_items)
        total == SumSizes([i \in 1..n |-> rect_items[i].child], 1, n)
        from(q) == IF across THEN q.x ELSE q.y
        long(q) == IF across THEN q.w ELSE q.h
    IN  \A i \in 1..n :
            LET q == rect_items[i].rect
            IN  /\ IF across THEN q.y = r.y /\ q.h = r.h ELSE q.x = r.x /\ q.w = r.w
                /\ long(q) = Times(long(r), Frac(rect_items[i].child.size, total))
                /\ from(q) = IF i = 1 THEN from(r)
                             ELSE Plus(from(rect_items[i - 1].rect),
                                       long(rect_items[i - 1].rect))

\* C16: after redraw the number of rectangles is the number of children with
\* size > 0, each rectangle belongs to one of these children, largest first;
\* and whenever squarify returns another number of rectangles (none for a
\* degenerate canvas), the rectangles are the slices of the fallback, one per
\* child in that order, along the longer side of rect_area.
OneRectPerSizableChild ==
    current_tree # NoNode =>
        LET n == Len(rect_items)
            r == RectArea(canvas)
            values == [i \in 1..n |-> Num(rect_items[i].child.size)]
        IN  /\ n = Cardinality(Sizable)
            /\ {rect_items[i].child : i \in 1..n}
                   = {current_tree.children[i] : i \in Sizable}
            /\ \A i \in 1..(n - 1) :
                   rect_items[i].child.size >= rect_items[i + 1].child.size
            /\ (n > 0 /\ Len(squarify(values, r)) # n) => SlicedAlong(r, Leq(r.h, r.w))

\* C16 witness: a node with two sizable children and an empty one was drawn
\* on a canvas whose rect_area is 1 wide, for which squarify returns nothing,
\* and two slices, one below the other, were drawn.
DegenerateCanvasDrawn ==
    /\ Len(current_tree.children) = 3
    /\ Cardinality(Sizable) = 2
    /\ RectArea(canvas).w = Num(1)
    /\ Less(Num(1), RectArea(canvas).h)
    /\ Len(rect_items) = 2
    /\ rect_items[1].child.size > rect_items[2].child.size
    /\ Less(rect_items[1].rect.y, rect_items[2].rect.y)

(***************************************************************************)
(* Properties of the exclusion rules                                       *)
(***************************************************************************)
\* the rule typed, as the loop of _should_exclude compares it, and the
\* candidate path as it is compared
NormalizedRule == rstrip(lower(replace(strip(get_exclude_patterns(<<typed>>)[1]))), "/")
NormalizedPath == lower(replace(abspath(cand)))

\* the path segments of a normalized path
Segments(s) == split(s, <<>>)

\* the segments a are the first segments of b
LeadingSegments(a, b) == Len(a) <= Len(b) /\ \A i \in 1..Len(a) : b[i] = a[i]

\* C20: an absolute rule excludes a candidate exactly when the normalized
\* candidate is the normalized rule or lies below it by whole path segments;
\* nothing else (a glob or a name in the rule) makes it match.
AbsoluteRuleMatchesBySegments ==
    (verdict # "" /\ isabs(strip(typed))) =>
        (verdict = "yes"
            <=> LeadingSegments(Segments(NormalizedRule), Segments(NormalizedPath)))

\* C20 witness: the rule /a was asked about /a/b and excluded it (as it
\* excludes /a and does not exclude /ab).
DescendantExcluded ==
    /\ typed = <<"/", "a">>
    /\ cand = <<"/", "a", "/", "B">>
    /\ verdict = "yes"

(***************************************************************************)
(* Properties of the session id                                            *)
(***************************************************************************)
\* the sessions that were issued an id: those a worker thread was started for
Issued == {s \in Sessions : pc[s] # "none"}

\* C21: every call of start_scanning issues an id greater than every id
\* issued before; scan_id never decreases and no other operation changes it,
\* so the new id belongs to no earlier session.
IdsStrictlyIncrease ==
    [][/\ scan_id' >= scan_id
       /\ (uiPc = "starting" /\ uiPc' = "idle") =>
              /\ scan_id' > scan_id
              /\ \A s \in Issued : s < scan_id'
              /\ Issued' = Issued \cup {scan_id'}
       /\ scan_id' # scan_id => (uiPc = "starting" /\ uiPc' = "idle")]_vars

\* C21 witness: start_scanning was called twice and the sessions 1 and 2 both
\* got a worker, the first of them still running.
TwoSessionsIssued ==
    /\ scan_id = 2
    /\ Issued = {1, 2}
    /\ pc[1] \notin {"none", "dead"}

(***************************************************************************)
(* Properties of the loop of squarify                                      *)
(***************************************************************************)
RECURSIVE ValuesIn(_, _)
\* the values of the first k rows laid out, row after row
ValuesIn(rows, k) == IF k = 0 THEN <<>> ELSE ValuesIn(rows, k - 1) \o rows[k].row

\* every value is in exactly one place: in a row laid out, in the current
\* row, or still waiting, in input order
EveryValueOnce == ValuesIn(run.rows, Len(run.rows)) \o run.row \o run.vals = run.all

\* no more than two iterations for each positive weight
WithinTwoPerValue == run.iterations <= 2 * Len(run.all)

\* an iteration moves the first waiting value to the row, or lays out a row
\* that is not empty and empties it, so that the next iteration accepts
IterationAdvances ==
    (run.at = "loop" /\ run'.at = "loop" /\ run' # run) =>
        \/ /\ run.vals # <<>>
           /\ run'.vals = Tail(run.vals)
           /\ run'.row = Append(run.row, Head(run.vals))
           /\ run'.rows = run.rows
        \/ /\ run.row # <<>>
           /\ run'.row = <<>>
           /\ run'.vals = run.vals
           /\ Len(run'.rows) = Len(run.rows) + 1
           /\ run'.rows[Len(run'.rows)].row = run.row

\* what the loop has left to do: two for each waiting value (to accept it and
\* to lay out its row), one more while the current row holds a value
LeftToDo(st) == 2 * Len(st.vals) + (IF st.row # <<>> THEN 1 ELSE 0)

\* every iteration counts one up and leaves less to do, so the loop cannot go
\* on for ever
IterationCounts ==
    (run.at = "loop" /\ run'.at = "loop" /\ run' # run) =>
        /\ run'.iterations = run.iterations + 1
        /\ LeftToDo(run') < LeftToDo(run)

\* C22: the loop of squarify terminates: each iteration accepts the first
\* waiting value or lays out a non-empty row, and leaves less to do; n
\* positive weights take at most 2n iterations, and when squarify returns
\* every value is in exactly one of the rows laid out.
LoopTerminates ==
    /\ [](EveryValueOnce /\ WithinTwoPerValue)
    /\ [](run.at = "done" => (run.vals = <<>> /\ run.row = <<>>))
    /\ [][IterationAdvances /\ IterationCounts]_vars

\* C22 witness: squarify returned after laying out three weights in two rows,
\* which took four iterations.
ReturnedAfterFlush ==
    /\ run.at = "done"
    /\ Len(run.all) = 3
    /\ Len(run.rows) = 2
    /\ run.iterations = 4

(***************************************************************************)
(* Properties of the zoom stack                                            *)
(***************************************************************************)
\* the entries of log that record an applied tree
CompletedAt == {i \in 1..Len(log) : log[i].kind = "Completed"}

\* the tree of the most recently completed scan
LatestRoot ==
    LET last == CHOOSE i \in CompletedAt : \A j \in CompletedAt : j <= i
    IN  result[log[last].sid]

\* C23: whenever current_tree is set, the zoom stack is non-empty, its last
\* element is current_tree and its first element is the root of the most
\* recently completed scan
ZoomStackTracksCurrentTree ==
    current_tree # NoNode =>
        /\ zoom_stack # <<>>
        /\ zoom_stack[Len(zoom_stack)] = current_tree
        /\ CompletedAt # {}
        /\ zoom_stack[1] = LatestRoot

=============================================================================
